---- MODULE Spec2Model ----
(***************************************************************************)
(* A model of opensoundscape's Audio container (src/opensoundscape/        *)
(* audio.py): the three construction paths of Audio.__init__, the          *)
(* attribute-set interception, trim, bandpass, spectrum and save.          *)
(*                                                                         *)
(* Conventions.                                                            *)
(*  - A numpy array is a view [buf, off, len] into a storage buffer of     *)
(*    `heap`; basic slicing returns a view of the same storage.            *)
(*  - A time in seconds is a rational [num, den] with den > 0, so that     *)
(*    int(time * sample_rate) and round(time * sample_rate) differ.        *)
(*  - A path string is a sequence of one-character strings.                *)
(*  - `call` is the last call made on the library and `outcome` what it    *)
(*    did: the exception raised ("" when none), the object returned and    *)
(*    the collaborators (file system, decoder, filter, writer) it invoked, *)
(*    in order.                                                            *)
(***************************************************************************)
EXTENDS Integers, Sequences, FiniteSets, TLC

VARIABLES
    audios,   \* the Audio instances that exist, in order of construction
    heap,     \* storage buffers of sample arrays: buffer id -> sequence
    held,     \* ids of the buffers of arrays the caller created and holds
    fs,       \* the file system: path -> [frames, rate] of the file there
    call,     \* the last call
    outcome   \* its outcome

vars == <<audios, heap, held, fs, call, outcome>>

\* ------------------------------------------------------------------ bounds

MaxAudios == 3
MaxBufs == 3
MaxLen == 3
MaxTime == 4
MaxPathLen == 4
MaxFiles == 3

\* ------------------------------------------------------- python arithmetic

\* a conversion that rounds down instead (floor)
IntCastFloor(n, d) == n \div d

\* int(n/d) for d > 0: truncation toward zero
IntCast(n, d) == IF n >= 0 THEN n \div d ELSE -((-n) \div d)

\* round(n/d) for d > 0: nearest integer, ties to the even one
Round(n, d) ==
    LET q == n \div d
        r == n - q * d
    IN  IF 2 * r < d THEN q
        ELSE IF 2 * r > d THEN q + 1
        ELSE IF q % 2 = 0 THEN q ELSE q + 1

\* ceil(n/d) for d > 0
Ceil(n, d) == -((-n) \div d)

Zeros(n) == [k \in 1..n |-> 0]

\* -------------------------------------------------------------- numpy views

\* one index of a slice with step 1, adjusted to a sequence of `length`
AdjustIndex(i, length) ==
    IF i < 0
    THEN (IF i + length < 0 THEN 0 ELSE i + length)
    ELSE (IF i >= length THEN length ELSE i)

\* samples[start:stop], a view of the same storage
Slice(samples, start, stop) ==
    LET s == AdjustIndex(start, samples.len)
        e == AdjustIndex(stop, samples.len)
    IN  [buf |-> samples.buf,
         off |-> samples.off + s,
         len |-> IF e > s THEN e - s ELSE 0]

\* the values an array shows when the storage is h
ContentsIn(h, samples) == [k \in 1..samples.len |-> h[samples.buf][samples.off + k]]

Contents(samples) == ContentsIn(heap, samples)

WholeArray(b) == [buf |-> b, off |-> 0, len |-> Len(heap[b])]

\* ------------------------------------------------------------ python values

None == <<>>

Some(x) == <<x>>

\* Each class with its base classes (the classes issubclass accepts for it)
Mro(cls) ==
    CASE cls = "str" -> {"str"}
      [] cls = "np.str_" -> {"np.str_", "str"}
      [] cls = "StrSubclass" -> {"StrSubclass", "str"}
      [] cls = "PosixPath" -> {"PosixPath", "Path", "PurePosixPath", "PurePath"}
      [] cls = "PurePosixPath" -> {"PurePosixPath", "PurePath"}
      [] cls = "BytesIO" -> {"BytesIO", "BufferedIOBase", "IOBase"}
      [] cls = "ndarray" -> {"ndarray"}
      [] cls = "memmap" -> {"memmap", "ndarray"}
      [] OTHER -> {cls}

\* The part of a path string after its last "." (path.split(".")[-1])
SplitLast(path) ==
    LET dots == {k \in 1..Len(path) : path[k] = "."}
        last == CHOOSE k \in dots : \A j \in dots : j <= k
    IN  IF dots = {} THEN path ELSE SubSeq(path, last + 1, Len(path))

\* ----------------------------------------------------------- collaborators

\* opensoundscape.audio_tools.bandpass_filter: a pure function of the
\* samples, returning as many samples as it is given (here the first
\* difference of the input, which like the band-pass removes the constant part)
bandpass_filter(values, low_f, high_f, sample_rate, order) ==
    [k \in 1..Len(values) |-> IF k = 1 THEN 0 ELSE values[k] - values[k - 1]]

\* the number of samples a decoded file or stream has after resampling
ResampledLen(file, sample_rate) == Ceil(file.frames * sample_rate, file.rate)

\* --------------------------------------------------------------- __init__

\* The construction path __init__ takes for a source of class cls
Dispatch(cls) ==
    IF cls = "str" \/ cls = "np.str_" THEN "path"
    ELSE IF "PurePath" \in Mro(cls) THEN "path"
    ELSE IF "BufferedIOBase" \in Mro(cls) THEN "stream"
    ELSE IF cls = "ndarray" THEN "samples"
    ELSE "error"

Failure(via, err, msg, calls) ==
    [err |-> err, msg |-> msg, calls |-> calls, via |-> via,
     alloc |-> <<>>, samples |-> [buf |-> 0, off |-> 0, len |-> 0]]

Success(via, calls, alloc, samples) ==
    [err |-> "", msg |-> "", calls |-> calls, via |-> via,
     alloc |-> alloc, samples |-> samples]

\* if path: ... (lines 71-84); cls is the class of `path`
InitFromPath(cls, path, sample_rate, max_duration) ==
    IF "Path" \notin Mro(cls)
    THEN Failure("path", "AttributeError", "is_file", <<>>)
    ELSE IF path \notin DOMAIN fs
    THEN Failure("path", "FileNotFoundError", "", <<"is_file">>)
    ELSE IF max_duration # None /\ fs[path].rate <= 0
    THEN Failure("path", "LibraryError", "", <<"is_file", "librosa.get_duration">>)
    ELSE IF max_duration # None /\ fs[path].frames > max_duration[1] * fs[path].rate
    THEN Failure("path", "OpsoLoadAudioInputTooLong", "", <<"is_file", "librosa.get_duration">>)
    ELSE LET calls == IF max_duration # None
                      THEN <<"is_file", "librosa.get_duration", "librosa.load">>
                      ELSE <<"is_file", "librosa.load">>
         IN  IF fs[path].rate <= 0 \/ sample_rate <= 0
             THEN Failure("path", "LibraryError", "", calls)
             ELSE LET n == ResampledLen(fs[path], sample_rate)
                  IN  Success("path", calls, <<Zeros(n)>>,
                              [buf |-> Len(heap) + 1, off |-> 0, len |-> n])

\* else: soundfile.read, librosa.resample (lines 89-95)
InitFromStream(content, sample_rate) ==
    IF content.rate <= 0 \/ sample_rate <= 0
    THEN Failure("stream", "LibraryError", "", <<"soundfile.read", "librosa.resample">>)
    ELSE LET n == ResampledLen(content, sample_rate)
         IN  Success("stream", <<"soundfile.read", "librosa.resample">>, <<Zeros(n)>>,
                     [buf |-> Len(heap) + 1, off |-> 0, len |-> n])

\* elif from_samples: samples = audio (lines 86-87)
InitFromSamples(array) == Success("samples", <<>>, <<>>, array)

\* Audio.__init__ up to the two attribute assignments: what it raises, or
\* the construction path taken, the buffer allocated and the array stored
AudioInit(audio, sample_rate, max_duration) ==
    LET d == Dispatch(audio.class)
    IN  CASE d = "error" -> Failure("none", "OpsoLoadAudioInputError", audio.class, <<>>)
          [] d = "path" ->
               InitFromPath(IF "PurePath" \in Mro(audio.class)
                            THEN audio.class ELSE "PosixPath",
                            audio.data, sample_rate, max_duration)
          [] d = "samples" -> InitFromSamples(audio.data)
          [] d = "stream" -> InitFromStream(audio.data, sample_rate)

\* The state after `return Audio(audio, sample_rate)` (or a user's call of
\* Audio) made by call c on receiver `parent` (0: the user's own call),
\* after the collaborator calls `pre`, which allocated the buffers `made`
Returns(c, pre, made, parent, audio, sample_rate, max_duration) ==
    LET r == AudioInit(audio, sample_rate, max_duration)
    IN  /\ call' = c
        /\ IF r.err = ""
           THEN /\ Len(audios) < MaxAudios
                /\ Len(heap) + Len(made) + Len(r.alloc) <= MaxBufs
                /\ r.samples.len <= MaxLen
                /\ audios' = Append(audios, [samples |-> r.samples,
                                             sample_rate |-> sample_rate,
                                             via |-> r.via,
                                             parent |-> parent])
                /\ heap' = heap \o made \o r.alloc
                /\ outcome' = [err |-> "", msg |-> "", ret |-> Len(audios) + 1,
                               via |-> r.via, calls |-> pre \o r.calls]
           ELSE /\ outcome' = [err |-> r.err, msg |-> r.msg, ret |-> 0,
                               via |-> r.via, calls |-> pre \o r.calls]
                /\ UNCHANGED <<audios, heap>>
        /\ UNCHANGED <<held, fs>>

Raises(c, err, msg, calls) ==
    /\ call' = c
    /\ outcome' = [err |-> err, msg |-> msg, ret |-> 0, via |-> "none", calls |-> calls]
    /\ UNCHANGED <<audios, heap, held, fs>>

\* Audio(audio, sample_rate, max_duration), called by the user
Construct(audio, sample_rate, max_duration) ==
    Returns([op |-> "Audio", audio |-> audio, sample_rate |-> sample_rate,
             max_duration |-> max_duration],
            <<>>, <<>>, 0, audio, sample_rate, max_duration)

\* ------------------------------------------------------------ __setattr__

\* a __setattr__ that stores the value, as object.__setattr__ does
SetAttrStores(self, name, value) ==
    /\ call' = [op |-> "__setattr__", self |-> self, name |-> name, value |-> value]
    /\ audios' = [audios EXCEPT ![self] =
                    IF name = "samples"
                    THEN [@ EXCEPT !.samples = WholeArray(value)]
                    ELSE [@ EXCEPT !.sample_rate = value]]
    /\ outcome' = [err |-> "", msg |-> "", ret |-> 0, via |-> "none", calls |-> <<>>]
    /\ UNCHANGED <<heap, held, fs>>

\* audios[self].name = value
SetAttr(self, name, value) ==
    Raises([op |-> "__setattr__", self |-> self, name |-> name, value |-> value],
           "AttributeError", name, <<>>)

\* ------------------------------------------------------------------- trim

\* the default of __init__'s sample_rate parameter
DefaultSampleRate == 22050

\* a trim that leaves the rate out of its call of Audio
TrimAtDefaultRate(self, start_time, end_time) ==
    LET a == audios[self]
        start_sample == IntCast(start_time.num * a.sample_rate, start_time.den)
        end_sample == IntCast(end_time.num * a.sample_rate, end_time.den)
        samples_trimmed == Slice(a.samples, start_sample, end_sample)
    IN  Returns([op |-> "trim", self |-> self, start_time |-> start_time,
                 end_time |-> end_time],
                <<>>, <<>>, self, [class |-> "ndarray", data |-> samples_trimmed],
                DefaultSampleRate, None)

Trim(self, start_time, end_time) ==
    LET a == audios[self]
        start_sample == IntCast(start_time.num * a.sample_rate, start_time.den)
        end_sample == IntCast(end_time.num * a.sample_rate, end_time.den)
        samples_trimmed == Slice(a.samples, start_sample, end_sample)
    IN  Returns([op |-> "trim", self |-> self, start_time |-> start_time,
                 end_time |-> end_time],
                <<>>, <<>>, self, [class |-> "ndarray", data |-> samples_trimmed],
                a.sample_rate, None)

\* --------------------------------------------------------------- bandpass

\* range checks that let the two boundary values through
RangeErrorStrict(low_f, high_f, sample_rate) ==
    IF low_f < 0 THEN "low_f must be greater than zero"
    ELSE IF 2 * high_f > sample_rate THEN "high_f must be less than sample_rate/2"
    ELSE ""

\* the two range checks of bandpass: the message raised, "" when both pass
RangeError(low_f, high_f, sample_rate) ==
    IF low_f <= 0 THEN "low_f must be greater than zero"
    ELSE IF 2 * high_f >= sample_rate THEN "high_f must be less than sample_rate/2"
    ELSE ""

Bandpass(self, low_f, high_f, order) ==
    LET a == audios[self]
        c == [op |-> "bandpass", self |-> self, low_f |-> low_f,
              high_f |-> high_f, order |-> order]
        msg == RangeError(low_f, high_f, a.sample_rate)
        filtered_samples ==
            bandpass_filter(Contents(a.samples), low_f, high_f, a.sample_rate, 9)
    IN  IF msg # ""
        THEN Raises(c, "ValueError", msg, <<>>)
        ELSE Returns(c, <<"bandpass_filter">>, <<filtered_samples>>, self,
                     [class |-> "ndarray",
                      data |-> [buf |-> Len(heap) + 1, off |-> 0,
                                len |-> Len(filtered_samples)]],
                     a.sample_rate, None)

\* --------------------------------------------------------------- spectrum

\* the bin numbers of scipy.fft.fftfreq(N, d): bin k stands for k / (N * d)
FftFreqBins(N) == [k \in 1..N |-> IF k - 1 < Ceil(N, 2) THEN k - 1 ELSE k - 1 - N]

\* seq[0:stop] of a one-dimensional array held as a sequence
Head0(seq, stop) == SubSeq(seq, 1, AdjustIndex(stop, Len(seq)))

Spectrum(self) ==
    LET a == audios[self]
        c == [op |-> "spectrum", self |-> self]
        N == a.samples.len
        bins == FftFreqBins(N)
    IN  IF a.sample_rate = 0
        THEN Raises(c, "ZeroDivisionError", "T", <<>>)
        ELSE IF N = 0
        THEN \E e \in {"ValueError", "ZeroDivisionError"} :
                Raises(c, e, "N", <<"fft">>)
        ELSE /\ call' = c
             /\ outcome' = [err |-> "", msg |-> "",
                            ret |-> [fft |-> Head0(bins, IntCast(N, 2)),
                                     frequencies |-> Head0(bins, IntCast(N, 2))],
                            via |-> "none",
                            calls |-> <<"fft", "fftfreq">>]
             /\ UNCHANGED <<audios, heap, held, fs>>

\* ------------------------------------------------------------------- save

WAV == <<"w", "a", "v">>

Save(self, path) ==
    LET a == audios[self]
        c == [op |-> "save", self |-> self, path |-> path]
    IN  IF SplitLast(path) # WAV
        THEN Raises(c, "ValueError", "file extension must be .wav", <<>>)
        ELSE /\ path \in DOMAIN fs \/ Cardinality(DOMAIN fs) < MaxFiles
             /\ call' = c
             /\ fs' = [p \in DOMAIN fs \cup {path} |->
                         IF p = path
                         THEN [frames |-> a.samples.len, rate |-> a.sample_rate]
                         ELSE fs[p]]
             /\ outcome' = [err |-> "", msg |-> "", ret |-> 0, via |-> "none",
                            calls |-> <<"write_wav">>]
             /\ UNCHANGED <<audios, heap, held>>

\* ----------------------------------------------------------------- caller

\* the caller writes in place to an array it created: array[index] = 1
CallerWrite(b, index) ==
    /\ b \in held
    /\ index \in 1..Len(heap[b])
    /\ heap[b][index] = 0
    /\ heap' = [heap EXCEPT ![b][index] = 1]
    /\ call' = [op |-> "array_write", buf |-> b, index |-> index]
    /\ outcome' = [err |-> "", msg |-> "", ret |-> 0, via |-> "none", calls |-> <<>>]
    /\ UNCHANGED <<audios, held, fs>>

\* ----------------------------------------------------------------- inputs

AWAV == <<"a", ".", "w", "a", "v">>

EMPTYWAV == <<"e", ".", "w", "a", "v">>

MISSING == <<"b", ".", "w", "a", "v">>

\* the files present at the start: one of one second, one with no frames
InitialFiles ==
    [p \in {AWAV, EMPTYWAV} |->
        IF p = AWAV THEN [frames |-> 2, rate |-> 2] ELSE [frames |-> 0, rate |-> 2]]

StringClasses == {"str", "np.str_", "StrSubclass"}

PathClasses == {"PosixPath", "PurePosixPath"}

StreamClasses == {"BytesIO"}

ArrayClasses == {"ndarray", "memmap"}

OtherClasses == {"int", "NoneType", "list"}

PathSources == [class : StringClasses \cup PathClasses, data : {AWAV, EMPTYWAV, MISSING}]

StreamSources == [class : StreamClasses, data : {[frames |-> 2, rate |-> 2]}]

ArraySources == [class : ArrayClasses, data : {WholeArray(b) : b \in held}]

OtherSources == [class : OtherClasses, data : {0}]

Sources == PathSources \cup StreamSources \cup ArraySources \cup OtherSources

FewSources ==
    {[class |-> "str", data |-> AWAV], [class |-> "BytesIO", data |-> [frames |-> 2, rate |-> 2]]}
    \cup [class : {"ndarray"}, data : {WholeArray(b) : b \in held}]

Rates == {-1, 0, 1, 3}

Durations == {None, Some(0), Some(1)}

\* times in seconds, as rationals
Times == [num : -MaxTime..MaxTime, den : {1, 2}]

TwoTimes == [num : {1, 3}, den : {2}]

FewTimes == [num : {-1, 1, 3}, den : {2}]

Freqs == {-1, 0, 1, 2}

Chars == {"w", "a", "v", "."}

RECURSIVE Strings(_)
Strings(n) ==
    IF n = 0 THEN {<<>>}
    ELSE LET shorter == Strings(n - 1)
         IN  shorter \cup {Append(s, c) : s \in {t \in shorter : Len(t) = n - 1}, c \in Chars}

AllPaths == Strings(MaxPathLen)

OWAV == <<"o", ".", "w", "a", "v">>

FewPaths == {OWAV, <<"a">>}

\* ------------------------------------------------------------------- spec

NoCall == [op |-> "none"]

NoOutcome == [err |-> "", msg |-> "", ret |-> 0, via |-> "none", calls |-> <<>>]

\* No instance yet; the caller holds one array of MaxLen zeros
Init ==
    /\ audios = <<>>
    /\ heap = <<Zeros(MaxLen)>>
    /\ held = {1}
    /\ fs = InitialFiles
    /\ call = NoCall
    /\ outcome = NoOutcome

Instances == 1..Len(audios)

\* One source instance, then every operation of the class on a few inputs
Next ==
    \/ \E audio \in FewSources, sample_rate \in {0, 3} :
          /\ Len(audios) = 0
          /\ Construct(audio, sample_rate, None)
    \/ \E self \in Instances : SetAttr(self, "sample_rate", 1)
    \/ \E self \in Instances, value \in held : SetAttr(self, "samples", value)
    \/ \E self \in Instances, start_time \in TwoTimes, end_time \in TwoTimes :
          Trim(self, start_time, end_time)
    \/ \E self \in Instances, low_f \in {0, 1} : Bandpass(self, low_f, 1, 9)
    \/ \E self \in Instances : Spectrum(self)
    \/ \E self \in Instances, path \in FewPaths : Save(self, path)

Spec == Init /\ [][Next]_vars

\* The caller holds one array of any length up to MaxLen
InitAny ==
    /\ audios = <<>>
    /\ \E n \in 0..MaxLen : heap = <<Zeros(n)>>
    /\ held = {1}
    /\ fs = InitialFiles
    /\ call = NoCall
    /\ outcome = NoOutcome

\* Construction from every kind of source
NextLoad ==
    \E audio \in Sources, sample_rate \in Rates, max_duration \in Durations :
        /\ Len(audios) = 0
        /\ Construct(audio, sample_rate, max_duration)

SpecLoad == InitAny /\ [][NextLoad]_vars

\* One instance of every length and rate, and bandpass at every pair of Freqs
NextBandpass ==
    \/ \E audio \in ArraySources, sample_rate \in Rates \cup {2} :
          /\ Len(audios) = 0
          /\ Construct(audio, sample_rate, None)
    \/ \E low_f \in Freqs, high_f \in Freqs, order \in {1, 9} :
          /\ Len(audios) = 1
          /\ Bandpass(1, low_f, high_f, order)

SpecBandpass == InitAny /\ [][NextBandpass]_vars

\* One instance of every length and rate, and trim at every pair of Times
NextTrim ==
    \/ \E audio \in ArraySources, sample_rate \in Rates :
          /\ Len(audios) = 0
          /\ Construct(audio, sample_rate, None)
    \/ \E start_time \in Times, end_time \in Times :
          /\ Len(audios) = 1
          /\ Trim(1, start_time, end_time)

SpecTrim == InitAny /\ [][NextTrim]_vars

\* One instance, saved to every path of AllPaths
NextSave ==
    \/ \E audio \in ArraySources, sample_rate \in {3} :
          /\ Len(audios) = 0
          /\ Construct(audio, sample_rate, None)
    \/ \E path \in AllPaths \cup {AWAV} :
          /\ Len(audios) = 1
          /\ Save(1, path)

SpecSave == InitAny /\ [][NextSave]_vars

\* Arrays shared with the caller and between instances
NextAlias ==
    \/ \E audio \in ArraySources, sample_rate \in {3} : Construct(audio, sample_rate, None)
    \/ \E self \in Instances, start_time \in FewTimes, end_time \in FewTimes :
          Trim(self, start_time, end_time)
    \/ \E b \in held, index \in 1..MaxLen : CallerWrite(b, index)

SpecAlias == Init /\ [][NextAlias]_vars

\* ----------------------------------------------------------------- claims

Min(x, y) == IF x <= y THEN x ELSE y

Max(x, y) == IF x >= y THEN x ELSE y

Clamp(x, lo, hi) == Max(lo, Min(x, hi))

Abs(x) == IF x < 0 THEN -x ELSE x

\* n/d cut to its integer part: the integer of largest magnitude, with the
\* sign of n, whose magnitude times d does not exceed the magnitude of n
Truncated(n, d) ==
    LET m == CHOOSE k \in 0..Abs(n) : k * d <= Abs(n) /\ Abs(n) < (k + 1) * d
    IN  IF n < 0 THEN -m ELSE m

\* a slice bound i resolved on an array of L elements
Resolved(i, L) == IF i < 0 THEN Max(0, i + L) ELSE Min(i, L)

EndsWithDotWav(path) ==
    /\ Len(path) >= 4
    /\ SubSeq(path, Len(path) - 3, Len(path)) = <<".", "w", "a", "v">>

\* what a source of class cls is: a string, a path object, a byte stream,
\* a sample array, or none of them
Kind(cls) ==
    IF "str" \in Mro(cls) THEN "string"
    ELSE IF "PurePath" \in Mro(cls) THEN "path"
    ELSE IF "BufferedIOBase" \in Mro(cls) THEN "stream"
    ELSE IF "ndarray" \in Mro(cls) THEN "array"
    ELSE "other"

Decoders == {"librosa.load", "soundfile.read", "librosa.resample", "librosa.get_duration"}

Invoked(name) == \E k \in 1..Len(outcome.calls) : outcome.calls[k] = name

\* C1: every assignment to `samples` or `sample_rate` of an instance raises
\* an error (AttributeError) and leaves every instance's attributes, and the
\* sample values they show, as they were, whatever calls came before.
C1_AssignmentFails ==
    [][call'.op = "__setattr__" =>
          /\ outcome'.err = "AttributeError"
          /\ audios' = audios
          /\ \A i \in Instances :
                ContentsIn(heap', audios'[i].samples) = ContentsIn(heap, audios[i].samples)]_vars

\* an assignment to `samples` was attempted on a derived instance, after a
\* file was saved
C1_Witness ==
    /\ call.op = "__setattr__"
    /\ call.name = "samples"
    /\ outcome.err = "AttributeError"
    /\ audios[call.self].parent # 0
    /\ OWAV \in DOMAIN fs

\* C2 as stated: the buffer returned by trim(a, b) on a buffer of length L
\* and rate r > 0 has length round(b*r) - round(a*r) clamped to [0, L].
C2_Original ==
    (call.op = "trim" /\ outcome.err = "" /\ audios[call.self].sample_rate > 0) =>
        LET self == audios[call.self]
            r == self.sample_rate
            a == call.start_time
            b == call.end_time
        IN  audios[outcome.ret].samples.len =
                Clamp(Round(b.num * r, b.den) - Round(a.num * r, a.den), 0, self.samples.len)

\* C2 as amended: the buffer returned by trim(a, b) has length max(0, E - S),
\* where S and E are int(a*r) and int(b*r) (cut toward zero), each resolved
\* as a slice bound on the L samples: a negative bound counts from the end,
\* and the result is clamped to [0, L].
C2_TrimLength ==
    (call.op = "trim" /\ outcome.err = "") =>
        LET self == audios[call.self]
            r == self.sample_rate
            L == self.samples.len
            S == Resolved(Truncated(call.start_time.num * r, call.start_time.den), L)
            E == Resolved(Truncated(call.end_time.num * r, call.end_time.den), L)
        IN  audios[outcome.ret].samples.len = Max(0, E - S)

\* a trim from a negative start time that returned samples, where the
\* rounded and clamped difference is another length
C2_Witness ==
    /\ call.op = "trim"
    /\ outcome.err = ""
    /\ call.start_time.num < 0
    /\ audios[call.self].sample_rate > 0
    /\ audios[outcome.ret].samples.len > 0
    /\ ~C2_Original

\* C3: bandpass raises ValueError whenever low_f <= 0 or high_f >=
\* sample_rate/2, before the filter is invoked and without returning an
\* instance; for every other pair it raises no ValueError.
C3_RangeChecked ==
    call.op = "bandpass" =>
        IF call.low_f <= 0 \/ 2 * call.high_f >= audios[call.self].sample_rate
        THEN /\ outcome.err = "ValueError"
             /\ ~Invoked("bandpass_filter")
             /\ outcome.ret = 0
             /\ Len(audios) = 1
        ELSE /\ outcome.err # "ValueError"
             /\ Invoked("bandpass_filter")

\* a bandpass with low_f > 0 and high_f exactly at sample_rate/2 was refused
C3_Witness ==
    /\ call.op = "bandpass"
    /\ call.low_f > 0
    /\ audios[call.self].sample_rate > 0
    /\ 2 * call.high_f = audios[call.self].sample_rate
    /\ outcome.err = "ValueError"

\* C4 as stated: save(path) with a path that does not end in ".wav" raises
\* ValueError, does not invoke the writer and leaves the file system alone.
C4_Original ==
    [][(call'.op = "save" /\ ~EndsWithDotWav(call'.path)) =>
          /\ outcome'.err = "ValueError"
          /\ outcome'.calls = <<>>
          /\ fs' = fs]_vars

\* C5 as stated: construction from a string or path object that names no
\* existing file raises FileNotFoundError whatever max_duration is, and from
\* an existing file longer than a given max_duration raises
\* OpsoLoadAudioInputTooLong; neither decodes nor yields an instance.
C5_Original ==
    (call.op = "Audio" /\ call.audio.class \in {"str", "np.str_", "PosixPath", "PurePosixPath"}) =>
        LET path == call.audio.data
            limit == call.max_duration
        IN  /\ path \notin DOMAIN fs =>
                /\ outcome.err = "FileNotFoundError"
                /\ ~Invoked("librosa.load")
                /\ outcome.ret = 0
            /\ (/\ path \in DOMAIN fs
                /\ limit # None
                /\ fs[path].frames > limit[1] * fs[path].rate) =>
                /\ outcome.err = "OpsoLoadAudioInputTooLong"
                /\ ~Invoked("librosa.load")
                /\ outcome.ret = 0

\* C6 as stated: a source that is no string, path object, byte stream or
\* sample array raises OpsoLoadAudioInputError naming its class before
\* anything else is done; every source of one of those four kinds is
\* dispatched to the construction path of its kind.
C6_Original ==
    call.op = "Audio" =>
        LET kind == Kind(call.audio.class)
        IN  /\ kind = "other" =>
                /\ outcome.err = "OpsoLoadAudioInputError"
                /\ outcome.msg = call.audio.class
                /\ outcome.calls = <<>>
                /\ outcome.ret = 0
            /\ kind \in {"string", "path"} => outcome.via = "path"
            /\ kind = "stream" => outcome.via = "stream"
            /\ kind = "array" => outcome.via = "samples"

\* C7 as stated: every instance has sample_rate > 0.
C7_Original == \A i \in Instances : audios[i].sample_rate > 0

\* C8 as stated: an in-place write by the caller to an array it holds
\* changes the samples of no instance.
C8_Original ==
    [][call'.op = "array_write" =>
          \A i \in Instances :
              ContentsIn(heap', audios'[i].samples) = ContentsIn(heap, audios[i].samples)]_vars

RECURSIVE Source(_)
\* the instance that instance i was derived from, through every trim and bandpass
Source(i) == IF audios[i].parent = 0 THEN i ELSE Source(audios[i].parent)

\* C9: a successful trim or bandpass returns a new instance, not the
\* receiver, with the receiver's sample_rate, built through the raw-array
\* path with no decoding, resampling or duration check, and leaves every
\* existing instance and its samples unchanged; every derived instance has
\* the sample rate of the instance it derives from.
C9_Derived ==
    /\ [][(call'.op \in {"trim", "bandpass"} /\ outcome'.err = "") =>
            LET new == outcome'.ret
                self == call'.self
            IN  /\ new = Len(audios) + 1
                /\ Len(audios') = new
                /\ new # self
                /\ audios'[new].sample_rate = audios[self].sample_rate
                /\ audios'[new].via = "samples"
                /\ \A k \in 1..Len(outcome'.calls) : outcome'.calls[k] \notin Decoders
                /\ \A i \in Instances :
                      /\ audios'[i] = audios[i]
                      /\ ContentsIn(heap', audios'[i].samples) =
                            ContentsIn(heap, audios[i].samples)]_vars
    /\ [](\A i \in Instances : audios[i].sample_rate = audios[Source(i)].sample_rate)

\* a file was loaded, trimmed, and the trimmed instance band-passed
C9_Witness ==
    /\ Len(audios) = 3
    /\ audios[1].via = "path"
    /\ audios[2].parent = 1
    /\ audios[3].parent = 2
    /\ call.op = "bandpass"
    /\ outcome.err = ""
    /\ outcome.ret = 3

\* C10 as stated: on any buffer of N >= 0 samples (with a positive rate)
\* spectrum returns, without error, magnitudes and frequencies of length
\* floor(N/2) for the bins 0 .. N/2 - 1.
C10_Original ==
    (call.op = "spectrum" /\ audios[call.self].sample_rate > 0) =>
        LET N == audios[call.self].samples.len
        IN  /\ outcome.err = ""
            /\ Len(outcome.ret.fft) = N \div 2
            /\ outcome.ret.frequencies = [k \in 1..(N \div 2) |-> k - 1]

====
